---- MODULE Spec2Model ----
(***************************************************************************)
(* Model of utils/cell_ocv.py: class Cell, the equivalent-circuit model of *)
(* an open-circuit-voltage relaxation transient.                           *)
(*                                                                         *)
(* Numbers.  A Python float is modelled by the exact rational it denotes, *)
(* a pair <<n, d>> in lowest terms with d > 0; rounding is not modelled.   *)
(* The IEEE specials a numpy.float64 division can produce are the pairs   *)
(* with d = 0: <<1, 0>> is inf, <<-1, 0>> is -inf and <<0, 0>> is nan.     *)
(* Python's None is the empty tuple.                                       *)
(*                                                                         *)
(* The class documents time and voltage as np.array; a plain list is also  *)
(* accepted by __init__.  The element type decides what a division by zero *)
(* does (ZeroDivisionError for float, inf/nan for numpy.float64), so the   *)
(* container kind is part of the constructor's input.                      *)
(***************************************************************************)
EXTENDS Integers, Sequences, FiniteSets, TLC

VARIABLES args, self, pc, op, exc, ret, calls, targ,
          reader, newdb, sessions, printed, raw

\* the Cell object and its caller; targ holds the arguments of the last
\* direct call of a method that takes some
cellvars == <<args, self, pc, calls>>

\* the SQLReader object, the cells table of the new database, and what the
\* last call did outside the object: sessions opened, lines printed
sqlvars == <<reader, newdb, sessions, printed>>

\* raw is the column index of the frame given to get_headers_aux
vars == <<args, self, pc, op, exc, ret, calls, targ,
          reader, newdb, sessions, printed, raw>>

\* ------------------------------------------------------------------ bounds
MaxLen == 3     \* longest time / voltage sequence drawn
MaxCalls == 2   \* guessing_parameters calls made on one object
MaxRows == 2    \* most rows in the cells table of an old database
MaxCells == 4   \* most cells held by the new database
MaxCols == 2    \* most columns of a raw frame

\* ----------------------------------------------------------------- numbers
None == <<>>
NaN == <<0, 0>>
PosInf == <<1, 0>>
NegInf == <<-1, 0>>
Zero == <<0, 1>>
One == <<1, 1>>

AbsInt(n) == IF n < 0 THEN -n ELSE n
SignInt(n) == IF n < 0 THEN -1 ELSE IF n = 0 THEN 0 ELSE 1

RECURSIVE GCD(_, _)
GCD(a, b) == IF b = 0 THEN a ELSE GCD(b, a % b)

\* the float n/d; a zero denominator gives the IEEE special of n's sign
Norm(n, d) ==
    IF d = 0 THEN <<SignInt(n), 0>>
    ELSE LET g == GCD(AbsInt(n), AbsInt(d))
         IN  <<(SignInt(d) * SignInt(n) * AbsInt(n)) \div g, AbsInt(d) \div g>>

IsNaN(a) == a = NaN
IsInf(a) == a = PosInf \/ a = NegInf
IsFinite(a) == a # None /\ a[2] > 0

\* a * b
Mul(a, b) == Norm(a[1] * b[1], a[2] * b[2])

\* a + b
Add(a, b) ==
    IF IsNaN(a) \/ IsNaN(b) THEN NaN
    ELSE IF IsInf(a) /\ IsInf(b) THEN (IF a = b THEN a ELSE NaN)
    ELSE IF IsInf(a) THEN a
    ELSE IF IsInf(b) THEN b
    ELSE Norm(a[1] * b[2] + b[1] * a[2], a[2] * b[2])

\* -a
Neg(a) == <<-a[1], a[2]>>

\* a - b
Sub(a, b) == Add(a, Neg(b))

\* abs(a)
Abs(a) == <<AbsInt(a[1]), a[2]>>

\* a / b as numpy.float64 divides: x/0 is +-inf, 0/0 and inf/inf are nan
Div(a, b) == Norm(a[1] * b[2], a[2] * b[1])

\* ------------------------------------------------------------- exceptions
NoExc == ""
Return(s, v) == [obj |-> s, exc |-> NoExc, ret |-> v]
Raise(s, e) == [obj |-> s, exc |-> e, ret |-> None]

\* a / b raises ZeroDivisionError: Python floats (elements of a list) with a
\* zero divisor.  numpy.float64 operands only warn.
DivRaises(kind, b) == kind = "list" /\ b = Zero

\* x[-1] on a scalar or on None: float and None are not subscriptable
\* (TypeError); a numpy.float64 rejects the index (IndexError).
ScalarSubscript(kind, x) ==
    IF x = None THEN "TypeError"
    ELSE IF kind = "list" THEN "TypeError" ELSE "IndexError"

\* a slope override tested with "is not None"
Truthy_not_none(slope) == slope # None

\* truth value of a slope override: None and 0 are false
Truthy(slope) == slope # None /\ slope # Zero

\* ------------------------------------------------------------------ inputs
KindSet == {"list", "ndarray"}

\* time samples 0, 10, 20, ... (t[0] is the interruption instant)
TimeOfLen(n) == [i \in 1..n |-> <<10 * (i - 1), 1>>]
TimeSet == {TimeOfLen(n) : n \in 0..MaxLen}

VoltSet == {<<3, 5>>, <<4, 5>>, <<1, 1>>}
Interior == <<4, 5>>
\* voltage sequences: first and last sample drawn, the samples between fixed
VoltageOf(n, first, last) ==
    [i \in 1..n |-> IF i = 1 THEN first ELSE IF i = n THEN last ELSE Interior]
VoltageSet ==
    {<<>>} \cup {VoltageOf(n, f, l) : n \in 1..MaxLen, f \in VoltSet, l \in VoltSet}

VCutSet == {<<6, 5>>, <<4, 5>>}
ICutSet == {Zero, <<1, 2>>, <<-1, 1>>}
ContributeSet == {Zero, <<1, 5>>, <<1, 2>>, One}

\* the slope argument: None, or a dict with the keys 'ct' and 'd'
NoSlope == [none |-> TRUE, ct |-> None, d |-> None]
Dict(ct, d) == [none |-> FALSE, ct |-> ct, d |-> d]
SlopeSet == {NoSlope, Dict(None, None), Dict(One, None), Dict(Zero, <<2, 1>>)}

ArgSet ==
    [kind : KindSet, time : TimeSet, voltage : VoltageSet, v_start : VCutSet,
     i_start : ICutSet, contribute : ContributeSet, slope : SlopeSet]

\* ------------------------------------------------------------- the object
\* the fields of an object that does not exist (yet)
NoObject ==
    [kind |-> "", _time |-> <<>>, _voltage |-> <<>>, _v_cut |-> None,
     _i_cut |-> None, _contribute |-> None, _slope |-> NoSlope,
     ocv |-> None, v_0 |-> None, _v_rlx |-> None, v_ir |-> None, r_ir |-> None,
     v_ct |-> None, v_d |-> None, r_ct |-> None, r_d |-> None,
     c_ct |-> None, c_d |-> None, v_ct_0 |-> None, v_d_0 |-> None]

\* the slope argument stored as passed, without the default
Slope_as_given(slope) == slope

\* if not slope: self._slope = {'d': None, 'ct': None} else: self._slope = slope
Slope_or_default(slope) == IF slope.none THEN Dict(None, None) ELSE slope

\* V_ir without abs: the signed difference
V_ir_signed(v_cut, v_0) == Sub(v_cut, v_0)

\* self.v_ir = abs(self._v_cut - self.v_0)
V_ir(v_cut, v_0) == Abs(Sub(v_cut, v_0))

\* Cell.__init__(time, voltage, v_start, i_start, contribute, slope).  A
\* raising constructor leaves no object behind.
Cell_init(a) ==
    LET s1 == [NoObject EXCEPT !.kind = a.kind, !._time = a.time,
                               !._voltage = a.voltage, !._v_cut = a.v_start,
                               !._i_cut = a.i_start,
                               !._contribute = a.contribute,
                               !._slope = Slope_or_default(a.slope)]
    IN  IF Len(a.voltage) = 0 THEN Raise(NoObject, "IndexError")
        ELSE
        LET ocv == a.voltage[Len(a.voltage)]
            v_0 == a.voltage[1]
            v_rlx == Sub(v_0, ocv)
            v_ir == V_ir(a.v_start, v_0)
        IN  IF DivRaises(a.kind, a.i_start)
            THEN Raise(NoObject, "ZeroDivisionError")
            ELSE Return([s1 EXCEPT !.ocv = ocv, !.v_0 = v_0, !._v_rlx = v_rlx,
                                   !.v_ir = v_ir,
                                   !.r_ir = Div(v_ir, a.i_start),
                                   !.v_ct = None, !.v_d = None, !.r_ct = None,
                                   !.r_d = None, !.c_ct = None, !.c_d = None,
                                   !.v_ct_0 = None, !.v_d_0 = None], None)

\* the v_rc argument of tau: a scalar (a float, a numpy.float64 or None, as
\* both call sites of the class pass) or a series of the container kind
Scalar(x) == [series |-> FALSE, val |-> x]
Series(q) == [series |-> TRUE, val |-> q]

\* math.log that never rejects its argument
LogRaises_never(x) == FALSE

\* math.log(x) raises ValueError (math domain error): x <= 0, -inf included;
\* nan and inf are accepted
LogRaises(x) == x # NaN /\ x[1] <= 0

\* the float abs(t_last / math.log(ratio)), kept as a term: the logarithm of
\* a rational is not a rational
TauTerm(t_last, ratio) == <<"abs(t/log(x))", t_last, ratio>>

\* what tau returns: a float, or the ndarray slope * time + tau
PyFloat(x) == <<"float", x>>
PyArray(q) == <<"ndarray", q>>

\* Cell.tau(v_rc_0, v_rc, r, c, slope).  Operands are evaluated left to
\* right: slope * time (a float times a list is a TypeError), then time[-1],
\* then v_rc[-1], the division, math.log and the outer division.  Both call
\* sites of the class pass a scalar or None as v_rc, so there v_rc[-1] raises.
tau(s, v_rc_0, v_rc, r, c, slope) ==
    IF Truthy(slope) /\ s.kind = "list" THEN Raise(s, "TypeError")
    ELSE IF Len(s._time) = 0 THEN Raise(s, "IndexError")
    ELSE IF ~v_rc.series THEN Raise(s, ScalarSubscript(s.kind, v_rc.val))
    ELSE IF Len(v_rc.val) = 0 THEN Raise(s, "IndexError")
    ELSE IF v_rc_0 = None THEN Raise(s, "TypeError")
    ELSE IF DivRaises(s.kind, v_rc.val[Len(v_rc.val)])
         THEN Raise(s, "ZeroDivisionError")
    ELSE
    LET ratio == Div(v_rc_0, v_rc.val[Len(v_rc.val)])
        t_last == s._time[Len(s._time)]
        t == TauTerm(t_last, ratio)
    IN  IF LogRaises(ratio) THEN Raise(s, "ValueError")
        ELSE IF s.kind = "list" /\ ratio = One
             THEN Raise(s, "ZeroDivisionError")
        ELSE IF Truthy(slope)
             THEN Return(s, PyArray([k \in 1..Len(s._time) |->
                                       <<"+", Mul(slope, s._time[k]), t>>]))
        ELSE Return(s, PyFloat(t))

\* v_ct scaled from the field's previous value once it is set
V_ct_accumulating(s) ==
    IF s.v_ct = None THEN Mul(s._v_rlx, s._contribute)
    ELSE Mul(s.v_ct, s._contribute)

\* self.v_ct = self._v_rlx * self._contribute
V_ct(s) == Mul(s._v_rlx, s._contribute)

\* v_d given the charge-transfer share instead of its complement
V_d_same_share(s) == Mul(s._v_rlx, s._contribute)

\* self.v_d = self._v_rlx * (1 - self._contribute)
V_d(s) == Mul(s._v_rlx, Sub(One, s._contribute))

\* branch resistance as v * i instead of v / i
R_branch_product(v, i_cut) == Mul(v, i_cut)

\* self.r_ct = self.v_ct / self._i_cut, self.r_d = self.v_d / self._i_cut
R_branch(v, i_cut) == Div(v, i_cut)

\* self.v_ct_0 = self.v_0 * (self.r_ct / (self.r_ct + self.r_d)), and v_d_0
V_branch_0(v_0, r, r_ct, r_d) == Mul(v_0, Div(r, Add(r_ct, r_d)))

\* guessing_parameters that assigns nothing unless every step succeeds
guessing_parameters_atomic(s) ==
    LET v_ct == V_ct(s)
        v_d == V_d(s)
        r_ct == R_branch(v_ct, s._i_cut)
        r_d == R_branch(v_d, s._i_cut)
        v_ct_0 == V_branch_0(s.v_0, r_ct, r_ct, r_d)
        v_d_0 == V_branch_0(s.v_0, r_d, r_ct, r_d)
        s6 == [s EXCEPT !.v_ct = v_ct, !.v_d = v_d, !.r_ct = r_ct, !.r_d = r_d,
                        !.v_ct_0 = v_ct_0, !.v_d_0 = v_d_0]
        tau_ct == tau(s6, v_ct_0, Scalar(v_ct), None, None, s._slope.ct)
        tau_d == tau(s6, v_d_0, Scalar(v_d), None, None, s._slope.d)
        s8 == [s6 EXCEPT !.c_ct = Div(tau_ct.ret, r_ct),
                         !.c_d = Div(tau_d.ret, r_d)]
    IN  IF DivRaises(s.kind, s._i_cut) THEN Raise(s, "ZeroDivisionError")
        ELSE IF DivRaises(s.kind, Add(r_ct, r_d))
             THEN Raise(s, "ZeroDivisionError")
        ELSE IF tau_ct.exc # NoExc THEN Raise(s, tau_ct.exc)
        ELSE IF tau_d.exc # NoExc THEN Raise(s, tau_d.exc)
        ELSE IF DivRaises(s.kind, r_ct) THEN Raise(s, "ZeroDivisionError")
        ELSE IF DivRaises(s.kind, r_d) THEN Raise(s, "ZeroDivisionError")
        ELSE Return(s8, None)

\* Cell.guessing_parameters().  Every assignment before a raising statement
\* stays in the object.  Both tau calls raise, so lines 117-118 are not
\* reached.
guessing_parameters(s) ==
    LET v_ct == V_ct(s)
        v_d == V_d(s)
        r_ct == R_branch(v_ct, s._i_cut)
        r_d == R_branch(v_d, s._i_cut)
        v_ct_0 == V_branch_0(s.v_0, r_ct, r_ct, r_d)
        v_d_0 == V_branch_0(s.v_0, r_d, r_ct, r_d)
        s2 == [s EXCEPT !.v_ct = v_ct, !.v_d = v_d]
        s4 == [s2 EXCEPT !.r_ct = r_ct, !.r_d = r_d]
        s6 == [s4 EXCEPT !.v_ct_0 = v_ct_0, !.v_d_0 = v_d_0]
        tau_ct == tau(s6, v_ct_0, Scalar(v_ct), None, None, s._slope.ct)
        tau_d == tau(s6, v_d_0, Scalar(v_d), None, None, s._slope.d)
        s7 == [s6 EXCEPT !.c_ct = Div(tau_ct.ret, r_ct)]
        s8 == [s7 EXCEPT !.c_d = Div(tau_d.ret, r_d)]
    IN  IF DivRaises(s.kind, s._i_cut) THEN Raise(s2, "ZeroDivisionError")
        ELSE IF DivRaises(s.kind, Add(r_ct, r_d))
             THEN Raise(s4, "ZeroDivisionError")
        ELSE IF tau_ct.exc # NoExc THEN Raise(s6, tau_ct.exc)
        ELSE IF tau_d.exc # NoExc THEN Raise(s6, tau_d.exc)
        ELSE IF DivRaises(s.kind, r_ct) THEN Raise(s6, "ZeroDivisionError")
        ELSE IF DivRaises(s.kind, r_d) THEN Raise(s7, "ZeroDivisionError")
        ELSE Return(s8, None)

\* relaxation_rc that answers a flat curve of zeros instead of raising
relaxation_rc_zeros(s, v0, r, c, slope) ==
    Return(s, [i \in 1..Len(s._time) |-> Zero])

\* Cell.relaxation_rc(v0, r, c, slope).  modify is a local; -self._time is a
\* TypeError on a list; tau is called with v_rc_0 = v_rc = None and raises,
\* so the product on lines 139-140 is never formed.
relaxation_rc(s, v0, r, c, slope) ==
    IF s.kind = "list" THEN Raise(s, "TypeError")
    ELSE Raise(s, tau(s, None, Scalar(None), r, c, slope).exc)

\* ocv_relax_func that forgets the initial branch voltages when it fails
ocv_relax_func_clearing(s) ==
    Raise([s EXCEPT !.v_ct_0 = None, !.v_d_0 = None],
          relaxation_rc(s, s.v_d_0, s.r_d, s.c_d, s._slope.d).exc)

\* Cell.ocv_relax_func()
ocv_relax_func(s) ==
    LET voltage_d == relaxation_rc(s, s.v_d_0, s.r_d, s.c_d, s._slope.d)
        voltage_ct == relaxation_rc(s, s.v_ct_0, s.r_ct, s.c_ct, s._slope.ct)
    IN  IF voltage_d.exc # NoExc THEN Raise(s, voltage_d.exc)
        ELSE IF voltage_ct.exc # NoExc THEN Raise(s, voltage_ct.exc)
        ELSE Return(s, [i \in 1..Len(voltage_d.ret) |->
                          Add(Add(voltage_d.ret[i], voltage_ct.ret[i]), s.ocv)])

\* ------------------------------------------ cellpy/readers/sql_dbreader.py
\* The module text is read past the raise on line 37: the methods of
\* SQLReader are modelled as they are written.
Range(q) == {q[i] : i \in 1..Len(q)}
SeqsUpTo(S, n) == UNION {[1..k -> S] : k \in 0..n}

\* cell names; Null is SQL NULL, a row whose name is None
Null == "NULL"
NameSet == {"a", "b"}

\* the attributes of an old row read on lines 211-240
ReadColumns ==
    {"name", "label", "project", "cell_group", "cellpy_file_name",
     "instrument", "cell_type", "cell_design", "channel", "experiment_type",
     "mass_active", "area", "mass_total", "loading_active",
     "nominal_capacity", "comment_slurry", "comment_cell", "comment_general",
     "selected", "freeze", "cell_exists"}

\* cells tables of an old database: one with every attribute read, one
\* without most of them
FullColumns ==
    <<"name", "label", "project", "cell_group", "cellpy_file_name",
      "instrument", "cell_type", "cell_design", "channel", "experiment_type",
      "mass_active", "area", "mass_total", "loading_active",
      "nominal_capacity", "comment_slurry", "comment_cell", "comment_general",
      "selected", "freeze", "cell_exists">>
PartialColumns == <<"name", "label">>

\* what db_path of load_excel_sqlite can point at: no file, a database file
\* without a cells table, a database file with one
NotAFile == [is_file |-> FALSE, cells |-> FALSE, columns |-> <<>>, rows |-> <<>>]
FileWithoutCells ==
    [is_file |-> TRUE, cells |-> FALSE, columns |-> <<>>, rows |-> <<>>]
OldFileSet ==
    {NotAFile, FileWithoutCells} \cup
    [is_file : {TRUE}, cells : {TRUE},
     columns : {FullColumns, PartialColumns},
     rows : SeqsUpTo(NameSet \cup {Null}, MaxRows)]

\* self.engine = None, self.other_engine = None, self.old_cell_table = None
NoEngine == [bound |-> FALSE, db |-> NotAFile]
NoTable == [loaded |-> FALSE, columns |-> <<>>]
SQLReader_init ==
    [engine |-> "None", other_engine |-> NoEngine, old_cell_table |-> NoTable]

\* the guard tests other_engine instead of old_cell_table
OldTableMissing_engine(r) == ~r.other_engine.bound

\* self.old_cell_table is None
OldTableMissing(r) == ~r.old_cell_table.loaded

\* SQLReader.load_excel_sqlite(db_path): other_engine is assigned before the
\* table is reflected, and reflecting a table that is not there raises
load_excel_sqlite(r, f) ==
    LET r1 == [r EXCEPT !.other_engine = [bound |-> TRUE, db |-> f]]
    IN  IF ~f.is_file THEN [reader |-> r, exc |-> "AssertionError"]
        ELSE IF ~f.cells THEN [reader |-> r1, exc |-> "NoSuchTableError"]
        ELSE [reader |-> [r1 EXCEPT !.old_cell_table =
                              [loaded |-> TRUE, columns |-> f.columns]],
              exc |-> NoExc]

\* SQLReader.create_db(): create_all adds the missing tables and keeps the
\* rows of the existing ones
create_db(r) == [r EXCEPT !.engine = "sqlite:///cellpy.db"]

\* SQLReader.view_old_excel_sqlite_table_columns()
view_old_excel_sqlite_table_columns(r) ==
    IF OldTableMissing(r) THEN [exc |-> "ValueError", printed |-> <<>>]
    ELSE [exc |-> NoExc,
          printed |->
             <<<<"class Cell(Base):">>, <<"    __tablename__ = 'cells'">>>> \o
             [i \in 1..Len(r.old_cell_table.columns) |->
                <<"    ", r.old_cell_table.columns[i],
                  ": Mapped[Optional[str]] = mapped_column()">>]]

\* the query sees the committed rows only
SeenByQuery_committed(db, added) == db

\* the rows new_session.query(Cell) selects from: Session autoflushes, so
\* the cells added so far are inserted before the SELECT runs
SeenByQuery(db, added) == db \o added

\* the loop of lines 208-245 and the commit of line 247 over the rows still
\* to read; added are the cells given to new_session.add so far.  A cell
\* whose name is None fails the NOT NULL column at the next flush; a row
\* without one of the attributes read is dropped by the except clause.
RECURSIVE ImportRows(_, _, _, _, _, _)
ImportRows(bound, db, added, rows, allow_duplicates, columns) ==
    IF rows = <<>>
    THEN IF added = <<>> THEN [exc |-> NoExc, added |-> added]
         ELSE IF ~bound THEN [exc |-> "UnboundExecutionError", added |-> <<>>]
         ELSE IF Null \in Range(added)
              THEN [exc |-> "IntegrityError", added |-> <<>>]
         ELSE [exc |-> NoExc, added |-> added]
    ELSE
    LET name == Head(rows)
        imported == IF ReadColumns \subseteq Range(columns)
                    THEN Append(added, name) ELSE added
    IN  IF allow_duplicates
        THEN ImportRows(bound, db, imported, Tail(rows), allow_duplicates,
                        columns)
        ELSE IF ~bound THEN [exc |-> "UnboundExecutionError", added |-> <<>>]
        ELSE IF Null \in Range(added)
             THEN [exc |-> "IntegrityError", added |-> <<>>]
        ELSE IF name # Null /\ name \in Range(SeenByQuery(db, added))
             THEN ImportRows(bound, db, added, Tail(rows), allow_duplicates,
                             columns)
        ELSE ImportRows(bound, db, imported, Tail(rows), allow_duplicates,
                        columns)

\* SQLReader.import_cells_from_excel_sqlite(allow_duplicates)
import_cells_from_excel_sqlite(r, db, allow_duplicates) ==
    IF OldTableMissing(r)
    THEN [exc |-> "ValueError", db |-> db, sessions |-> 0]
    ELSE IF ~r.other_engine.db.cells
    THEN [exc |-> "OperationalError", db |-> db, sessions |-> 2]
    ELSE
    LET res == ImportRows(r.engine # "None", db, <<>>, r.other_engine.db.rows,
                          allow_duplicates, r.old_cell_table.columns)
    IN  [exc |-> res.exc, db |-> db \o res.added, sessions |-> 2]

\* ------------------------------- cellpy/readers/instruments/maccor_txt.py
\* A str is the sequence of its characters.
UpperCase ==
    <<"A", "B", "C", "D", "E", "F", "G", "H", "I", "J", "K", "L", "M",
      "N", "O", "P", "Q", "R", "S", "T", "U", "V", "W", "X", "Y", "Z">>
LowerCase ==
    <<"a", "b", "c", "d", "e", "f", "g", "h", "i", "j", "k", "l", "m",
      "n", "o", "p", "q", "r", "s", "t", "u", "v", "w", "x", "y", "z">>

\* col.startswith(prefix)
StartsWith(col, prefix) ==
    Len(col) >= Len(prefix) /\ SubSeq(col, 1, Len(prefix)) = prefix

\* col.replace(old, new) for one-character old and new
Replace(col, old, new) ==
    [i \in 1..Len(col) |-> IF col[i] = old THEN new ELSE col[i]]

\* the part before the last separator
SplitFirst_last(col, sep) ==
    LET at == {i \in 1..Len(col) : col[i] = sep}
    IN  IF at = {} THEN col
        ELSE SubSeq(col, 1, (CHOOSE i \in at : \A j \in at : j <= i) - 1)

\* "".join(col.split(sep)[0]): the part before the first separator, the
\* whole str when there is none
RECURSIVE SplitFirst(_, _)
SplitFirst(col, sep) ==
    IF col = <<>> \/ Head(col) = sep THEN <<>>
    ELSE <<Head(col)>> \o SplitFirst(Tail(col), sep)

\* col.lower() on ASCII letters
Lower(col) ==
    [i \in 1..Len(col) |->
       IF \E k \in 1..26 : UpperCase[k] = col[i]
       THEN LowerCase[CHOOSE k \in 1..26 : UpperCase[k] = col[i]]
       ELSE col[i]]

\* headers = HeaderDict(); headers[col] = value stores like a dict
HeaderDict == [k \in {} |-> k]
SetItem(headers, key, value) ==
    [k \in DOMAIN headers \cup {key} |->
       IF k = key THEN value ELSE headers[k]]

Aux_ == <<"A", "u", "x", "_">>

\* MaccorTxtLoader.get_headers_aux(raw), the loop over raw.columns
RECURSIVE get_headers_aux_loop(_, _)
get_headers_aux_loop(headers, columns) ==
    IF columns = <<>> THEN headers
    ELSE LET col == Head(columns)
             ncol == SplitFirst(Replace(col, "/", "_"), "(")
         IN  IF StartsWith(col, Aux_)
             THEN get_headers_aux_loop(SetItem(headers, col, Lower(ncol)),
                                       Tail(columns))
             ELSE get_headers_aux_loop(headers, Tail(columns))

get_headers_aux(columns) == get_headers_aux_loop(HeaderDict, columns)

\* column names a raw frame is drawn from
ColumnPool ==
    {<<"A", "u", "x", "_", "1">>,
     <<"A", "u", "x", "_", "T", "/", "C">>,
     <<"A", "u", "x", "_", "V", "(", "V", ")">>,
     <<"A", "u", "x", "_", "(", "/">>,
     <<"A", "u", "x", "_", "a", "/", "B", "(", "c", "(", "D">>,
     <<"A", "u", "x", "_">>,
     <<"a", "u", "x", "_", "1">>,
     <<"A", "u", "x">>,
     <<"V", "_", "A", "u", "x", "_", "1">>,
     <<"T", "/", "C", "(", "C", ")">>}

\* ----------------------------------------------------------- state machine
\* no direct call of tau has been made
NoCall == [v_rc_0 |-> None, v_rc |-> Scalar(None), slope |-> None]

Init ==
    /\ args \in ArgSet
    /\ self = NoObject
    /\ pc = "new"
    /\ op = ""
    /\ exc = NoExc
    /\ ret = None
    /\ calls = 0
    /\ targ = NoCall
    /\ reader = SQLReader_init
    /\ newdb = <<>>
    /\ sessions = 0
    /\ printed = <<>>
    /\ raw = <<>>

\* Cell(time, voltage, v_start, i_start, contribute, slope)
CallInit ==
    /\ pc = "new"
    /\ LET r == Cell_init(args)
       IN  /\ self' = r.obj
           /\ pc' = IF r.exc = NoExc THEN "live" ELSE "dead"
           /\ exc' = r.exc
           /\ ret' = r.ret
    /\ op' = "__init__"
    /\ targ' = NoCall
    /\ UNCHANGED <<args, calls, sqlvars, raw>>

\* cell.guessing_parameters()
CallGuessingParameters ==
    /\ pc = "live"
    /\ calls < MaxCalls
    /\ LET r == guessing_parameters(self)
       IN  /\ self' = r.obj
           /\ exc' = r.exc
           /\ ret' = r.ret
    /\ op' = "guessing_parameters"
    /\ calls' = calls + 1
    /\ targ' = NoCall
    /\ UNCHANGED <<args, pc, sqlvars, raw>>

\* cell.ocv_relax_func()
CallOcvRelaxFunc ==
    /\ pc = "live"
    /\ LET r == ocv_relax_func(self)
       IN  /\ self' = r.obj
           /\ exc' = r.exc
           /\ ret' = r.ret
    /\ op' = "ocv_relax_func"
    /\ targ' = NoCall
    /\ UNCHANGED <<args, pc, calls, sqlvars, raw>>

Next == CallInit \/ CallGuessingParameters \/ CallOcvRelaxFunc

Spec == Init /\ [][Next]_vars

\* ------------------------------------------------ tau called on its own
\* arguments of a direct call cell.tau(v_rc_0, v_rc, None, None, slope)
TauV0Set == {None, Zero, <<1, 2>>, <<-1, 2>>}
TauVrcSet ==
    {Scalar(<<1, 5>>), Series(<<>>), Series(<<Zero>>), Series(<<<<1, 2>>>>),
     Series(<<<<1, 2>>, <<1, 4>>>>), Series(<<<<1, 4>>, <<-1, 4>>>>)}
TauSlopeSet == {None, Zero, One, <<2, 1>>}

\* objects to call tau on: the concrete scenario over every time grid, as a
\* list and as an ndarray
TauArgSet ==
    {[a EXCEPT !.slope = NoSlope] : a \in
       [kind : KindSet, time : TimeSet, voltage : {<<One, <<4, 5>>, <<3, 5>>>>},
        v_start : {<<6, 5>>}, i_start : {<<1, 2>>}, contribute : {<<1, 2>>},
        slope : {NoSlope}]}

InitTau ==
    /\ args \in TauArgSet
    /\ self = NoObject
    /\ pc = "new"
    /\ op = ""
    /\ exc = NoExc
    /\ ret = None
    /\ calls = 0
    /\ targ = NoCall
    /\ reader = SQLReader_init
    /\ newdb = <<>>
    /\ sessions = 0
    /\ printed = <<>>
    /\ raw = <<>>

\* cell.tau(v_rc_0, v_rc, None, None, slope)
CallTau ==
    /\ pc = "live"
    /\ \E v_rc_0 \in TauV0Set, v_rc \in TauVrcSet, slope \in TauSlopeSet :
          LET r == tau(self, v_rc_0, v_rc, None, None, slope)
          IN  /\ exc' = r.exc
              /\ ret' = r.ret
              /\ targ' = [v_rc_0 |-> v_rc_0, v_rc |-> v_rc, slope |-> slope]
    /\ op' = "tau"
    /\ UNCHANGED <<cellvars, sqlvars, raw>>

NextTau == CallInit \/ CallGuessingParameters \/ CallTau

SpecTau == InitTau /\ [][NextTau]_vars

\* ------------------------------------------------- SQLReader on its own
\* no Cell is under construction
NoArgs ==
    [kind |-> "list", time |-> <<>>, voltage |-> <<>>, v_start |-> None,
     i_start |-> None, contribute |-> None, slope |-> NoSlope]

\* reader = SQLReader(); the new database file holds no cells yet
InitSQL ==
    /\ args = NoArgs
    /\ self = NoObject
    /\ pc = "new"
    /\ op = "__init__"
    /\ exc = NoExc
    /\ ret = None
    /\ calls = 0
    /\ targ = NoCall
    /\ reader = SQLReader_init
    /\ newdb = <<>>
    /\ sessions = 0
    /\ printed = <<>>
    /\ raw = <<>>

\* reader.create_db()
CallCreateDb ==
    /\ reader' = create_db(reader)
    /\ op' = "create_db"
    /\ exc' = NoExc
    /\ ret' = None
    /\ targ' = NoCall
    /\ sessions' = 0
    /\ printed' = <<>>
    /\ UNCHANGED <<cellvars, newdb, raw>>

\* reader.load_excel_sqlite(db_path)
CallLoadExcelSqlite ==
    /\ \E f \in OldFileSet :
          LET r == load_excel_sqlite(reader, f)
          IN  /\ reader' = r.reader
              /\ exc' = r.exc
    /\ op' = "load_excel_sqlite"
    /\ ret' = None
    /\ targ' = NoCall
    /\ sessions' = 0
    /\ printed' = <<>>
    /\ UNCHANGED <<cellvars, newdb, raw>>

\* reader.view_old_excel_sqlite_table_columns()
CallViewOldColumns ==
    /\ LET r == view_old_excel_sqlite_table_columns(reader)
       IN  /\ exc' = r.exc
           /\ printed' = r.printed
    /\ op' = "view_old_excel_sqlite_table_columns"
    /\ ret' = None
    /\ targ' = NoCall
    /\ sessions' = 0
    /\ UNCHANGED <<cellvars, reader, newdb, raw>>

\* reader.import_cells_from_excel_sqlite(allow_duplicates)
CallImportCells ==
    /\ Len(newdb) + Len(reader.other_engine.db.rows) <= MaxCells
    /\ \E allow_duplicates \in BOOLEAN :
          LET r == import_cells_from_excel_sqlite(reader, newdb,
                                                  allow_duplicates)
          IN  /\ exc' = r.exc
              /\ newdb' = r.db
              /\ sessions' = r.sessions
              /\ targ' = [allow_duplicates |-> allow_duplicates]
    /\ op' = "import_cells_from_excel_sqlite"
    /\ ret' = None
    /\ printed' = <<>>
    /\ UNCHANGED <<cellvars, reader, raw>>

NextSQL ==
    \/ CallCreateDb
    \/ CallLoadExcelSqlite
    \/ CallViewOldColumns
    \/ CallImportCells

SpecSQL == InitSQL /\ [][NextSQL]_vars

\* ------------------------------------------ get_headers_aux on its own
InitAux ==
    /\ args = NoArgs
    /\ self = NoObject
    /\ pc = "new"
    /\ op = ""
    /\ exc = NoExc
    /\ ret = None
    /\ calls = 0
    /\ targ = NoCall
    /\ reader = SQLReader_init
    /\ newdb = <<>>
    /\ sessions = 0
    /\ printed = <<>>
    /\ raw \in SeqsUpTo(ColumnPool, MaxCols)

\* MaccorTxtLoader.get_headers_aux(raw)
CallGetHeadersAux ==
    /\ op = ""
    /\ ret' = get_headers_aux(raw)
    /\ op' = "get_headers_aux"
    /\ exc' = NoExc
    /\ UNCHANGED <<cellvars, targ, sqlvars, raw>>

NextAux == CallGetHeadersAux

SpecAux == InitAux /\ [][NextAux]_vars

\* ------------------------------------------------------------------ claims
\* the concrete scenario: time [0, 10, 20], voltage [1.0, 0.8, 0.6],
\* v_cut 1.2, i_cut 0.5, contribute 0.5, no slope
Scenario ==
    [kind |-> "ndarray", time |-> TimeOfLen(3),
     voltage |-> <<One, <<4, 5>>, <<3, 5>>>>, v_start |-> <<6, 5>>,
     i_start |-> <<1, 2>>, contribute |-> <<1, 2>>, slope |-> NoSlope]

BranchFields(s) ==
    <<s.v_ct, s.v_d, s.r_ct, s.r_d, s.c_ct, s.c_d, s.v_ct_0, s.v_d_0>>

AllUndefined(s) == \A i \in 1..8 : BranchFields(s)[i] = None
AllDefined(s) == \A i \in 1..8 : BranchFields(s)[i] # None

\* a transient of the documented shape: len(time) == len(voltage) >= 2
WellShaped == Len(args.time) = Len(args.voltage) /\ Len(args.voltage) >= 2

\* len(time) == len(voltage) >= 2, i_cut != 0, v_0 != ocv, slope absent
ValidModel ==
    /\ WellShaped
    /\ args.i_start # Zero
    /\ args.voltage[1] # args.voltage[Len(args.voltage)]
    /\ args.slope.none

\* C1: with at least 2 voltage samples and a non-zero i_cut the constructor
\* succeeds and yields ocv = voltage[last], v_0 = voltage[first],
\* v_rlx = v_0 - ocv, v_ir = |v_cut - v_0|, r_ir = v_ir / i_cut, and until
\* the first estimation all eight branch fields are undefined; in the
\* concrete scenario ocv = 0.6, v_0 = 1, v_rlx = 0.4, v_ir = 0.2, r_ir = 0.4.
C1_Construction ==
    /\ (pc # "new" /\ Len(args.voltage) >= 2 /\ args.i_start # Zero) =>
          /\ pc = "live"
          /\ self.ocv = args.voltage[Len(args.voltage)]
          /\ self.v_0 = args.voltage[1]
          /\ self._v_rlx = Sub(args.voltage[1], args.voltage[Len(args.voltage)])
          /\ self.v_ir = Abs(Sub(args.v_start, args.voltage[1]))
          /\ self.r_ir = Div(self.v_ir, args.i_start)
          /\ (calls = 0 => AllUndefined(self))
    /\ (pc # "new" /\ args = Scenario) =>
          /\ self.ocv = <<3, 5>> /\ self.v_0 = One /\ self._v_rlx = <<2, 5>>
          /\ self.v_ir = <<1, 5>> /\ self.r_ir = <<2, 5>>

C1_Witness ==
    /\ pc = "live" /\ op = "__init__" /\ exc = NoExc
    /\ Len(args.voltage) >= 2 /\ args.i_start = <<-1, 1>>
    /\ args.v_start = <<4, 5>> /\ self.v_0 = One
    /\ self.v_ir = <<1, 5>> /\ self.r_ir = <<-1, 5>>
    /\ AllUndefined(self)

\* C2: on a valid model a single guessing_parameters call after construction
\* completes without error and leaves all eight branch fields defined.
C2_EstimationPopulates ==
    (op = "guessing_parameters" /\ calls = 1 /\ ValidModel) =>
        (exc = NoExc /\ AllDefined(self))

\* C3: ocv_relax_func on a model on which guessing_parameters has never been
\* called raises and returns no curve.
C3_ReconstructionBeforeEstimation ==
    (op = "ocv_relax_func" /\ calls = 0) =>
        (exc \in {"TypeError", "IndexError"} /\ ret = None)

C3_Witness ==
    /\ op = "ocv_relax_func" /\ calls = 0 /\ pc = "live"
    /\ args = Scenario /\ AllUndefined(self)
    /\ exc = "TypeError" /\ ret = None

\* C4: after estimation on a valid model ocv_relax_func returns one element
\* per time sample (voltage_d + voltage_ct + ocv at that sample).
C4_ReconstructionAligned ==
    (op = "ocv_relax_func" /\ calls >= 1 /\ ValidModel) =>
        (exc = NoExc /\ ret # None /\ Len(ret) = Len(self._time))

\* C5: on a well-shaped transient a zero i_cut makes the constructor raise
\* where r_ir is computed; no object exists whose r_ir or branch resistance
\* is inf or nan.
C5_ZeroCurrentRejected ==
    /\ (pc # "new" /\ WellShaped /\ args.i_start = Zero) =>
          (pc = "dead" /\ exc = "ZeroDivisionError")
    /\ (pc = "live" /\ WellShaped) =>
          /\ IsFinite(self.r_ir)
          /\ self.r_ct # None => IsFinite(self.r_ct)
          /\ self.r_d # None => IsFinite(self.r_d)

\* C6: every constructed object has len(time) = len(voltage) >= 2; any other
\* input is rejected by the constructor.
C6_ShapeRejected ==
    /\ pc = "live" =>
          (Len(self._time) = Len(self._voltage) /\ Len(self._voltage) >= 2)
    /\ (pc # "new" /\ ~(Len(args.time) = Len(args.voltage)
                          /\ Len(args.voltage) >= 2)) =>
          (pc = "dead" /\ exc # NoExc)

\* C7: once guessing_parameters has assigned v_ct and v_d,
\* v_ct = v_rlx * contribute, v_d = v_rlx * (1 - contribute) and
\* v_ct + v_d = v_rlx.
C7_ContributionSplit ==
    (pc = "live" /\ self.v_ct # None /\ self.v_d # None) =>
        /\ self.v_ct = Mul(self._v_rlx, args.contribute)
        /\ self.v_d = Mul(self._v_rlx, Sub(One, args.contribute))
        /\ Add(self.v_ct, self.v_d) = self._v_rlx

C7_Witness ==
    /\ op = "guessing_parameters" /\ calls = 1
    /\ args.contribute = <<1, 5>> /\ self._v_rlx = <<2, 5>>
    /\ self.v_ct = <<2, 25>> /\ self.v_d = <<8, 25>>

\* C8: whenever guessing_parameters has assigned v_ct_0 and v_d_0 on a
\* well-shaped transient and r_ct + r_d # 0,
\* v_ct_0 = v_0 * r_ct / (r_ct + r_d), v_d_0 = v_0 * r_d / (r_ct + r_d) and
\* v_ct_0 + v_d_0 = v_0.
C8_SeriesDivider ==
    (pc = "live" /\ WellShaped /\ self.v_ct_0 # None /\ self.v_d_0 # None
       /\ Add(self.r_ct, self.r_d) # Zero) =>
        /\ self.v_ct_0 =
              Mul(self.v_0, Div(self.r_ct, Add(self.r_ct, self.r_d)))
        /\ self.v_d_0 =
              Mul(self.v_0, Div(self.r_d, Add(self.r_ct, self.r_d)))
        /\ Add(self.v_ct_0, self.v_d_0) = self.v_0

Half == <<1, 2>>
Two == <<2, 1>>

\* what C9 states of the object after an estimation call
SymmetricSplit ==
    /\ self.v_ct = Mul(self._v_rlx, Half) /\ self.v_d = self.v_ct
    /\ self.r_ct = Div(self._v_rlx, Mul(Two, args.i_start))
    /\ self.r_d = self.r_ct
    /\ self.v_ct_0 = Mul(self.v_0, Half) /\ self.v_d_0 = self.v_ct_0

\* C9 as stated: for every transient with len(time) = len(voltage) >= 2 and
\* i_cut # 0, contribute = 0.5 makes estimation split symmetrically.
C9_SymmetricSplit_AsStated ==
    (op = "guessing_parameters" /\ args.contribute = Half
       /\ WellShaped /\ args.i_start # Zero) => SymmetricSplit

\* C9 (amended): for every such transient that also has v_0 # ocv,
\* contribute = 0.5 gives v_ct = v_d = v_rlx / 2,
\* r_ct = r_d = v_rlx / (2 * i_cut) and v_ct_0 = v_d_0 = v_0 / 2; the
\* concrete scenario gives 0.2, 0.4 and 0.5.
C9_SymmetricSplit ==
    /\ (op = "guessing_parameters" /\ args.contribute = Half
          /\ WellShaped /\ args.i_start # Zero
          /\ args.voltage[1] # args.voltage[Len(args.voltage)]) =>
             SymmetricSplit
    /\ (op = "guessing_parameters" /\ args = Scenario) =>
          /\ self.v_ct = <<1, 5>> /\ self.v_d = <<1, 5>>
          /\ self.r_ct = <<2, 5>> /\ self.r_d = <<2, 5>>
          /\ self.v_ct_0 = Half /\ self.v_d_0 = Half

C9_Witness ==
    /\ op = "guessing_parameters" /\ calls = 1 /\ args = Scenario
    /\ self.v_ct = <<1, 5>> /\ self.r_d = <<2, 5>> /\ self.v_d_0 = Half

\* C10: a guessing_parameters call on an object on which it has been called
\* before leaves all eight branch fields as they were.
C10_Idempotent ==
    [][(calls >= 1 /\ calls' = calls + 1 /\ op' = "guessing_parameters")
          => BranchFields(self') = BranchFields(self)]_vars

C10_Witness ==
    /\ op = "guessing_parameters" /\ calls = 2
    /\ args.contribute = <<1, 5>> /\ self._v_rlx = <<2, 5>>
    /\ self.v_ct = <<2, 25>> /\ self.v_ct_0 = <<1, 5>>
    /\ self.c_ct = None

\* the object built from the same arguments with the explicit mapping
\* {'ct': None, 'd': None} in place of an absent slope
ExplicitTwin == Cell_init([args EXCEPT !.slope = Dict(None, None)])

\* C11: an object built with the slope absent has the slope state
\* {'ct': None, 'd': None}, and after construction and after every later
\* guessing_parameters and ocv_relax_func call its fields and the call's
\* outcome are those the object built with the explicit mapping gives.
C11_AbsentSlopeIsExplicitNone ==
    (pc # "new" /\ args.slope.none) =>
        /\ (pc = "live") = (ExplicitTwin.exc = NoExc)
        /\ op = "__init__" => (self = ExplicitTwin.obj /\ exc = ExplicitTwin.exc)
        /\ pc = "live" =>
              /\ self._slope = Dict(None, None)
              /\ calls = 0 => self = ExplicitTwin.obj
              /\ calls >= 1 =>
                    self = guessing_parameters(ExplicitTwin.obj).obj
              /\ op = "guessing_parameters" =>
                    exc = guessing_parameters(ExplicitTwin.obj).exc
              /\ (op = "ocv_relax_func" /\ calls = 0) =>
                    /\ exc = ocv_relax_func(ExplicitTwin.obj).exc
                    /\ ret = ocv_relax_func(ExplicitTwin.obj).ret
              /\ (op = "ocv_relax_func" /\ calls >= 1) =>
                    /\ exc = ocv_relax_func(
                                guessing_parameters(ExplicitTwin.obj).obj).exc
                    /\ ret = ocv_relax_func(
                                guessing_parameters(ExplicitTwin.obj).obj).ret

C11_Witness ==
    /\ args.slope.none /\ pc = "live" /\ op = "ocv_relax_func" /\ calls = 1
    /\ self._slope = Dict(None, None) /\ self.v_ct = <<1, 5>>
    /\ exc = "TypeError"

\* C12: for a branch with no slope override, after tau has been estimated
\* from the ratio v_rc_0 / v_rc[-1], relaxation_rc reconstructs the branch
\* curve with that tau, and its value at t_last is v_rc_0 times the observed
\* terminal ratio (exp(-t_last / tau) = v_rc[-1] / v_rc_0).
C12_RoundTrip ==
    (op = "tau" /\ exc = NoExc /\ targ.slope = None /\ ret[1] = "float") =>
        LET curve == relaxation_rc(self, targ.v_rc_0, None, None, None)
        IN  /\ curve.exc = NoExc
            /\ Len(curve.ret) = Len(self._time)
            /\ curve.ret[Len(curve.ret)] = targ.v_rc.val[Len(targ.v_rc.val)]

\* the override-dependent part of what tau returned: the ndarray
\* slope * time + tau, one element per time sample
DriftArray ==
    /\ ret[1] = "ndarray"
    /\ Len(ret[2]) = Len(self._time)
    /\ \A k \in 1..Len(self._time) :
          ret[2][k] = <<"+", Mul(targ.slope, self._time[k]),
                        TauTerm(self._time[Len(self._time)],
                                Div(targ.v_rc_0,
                                    targ.v_rc.val[Len(targ.v_rc.val)]))>>

\* C13 as stated: tau returns a scalar exactly when the override is None,
\* and for every override that is not None the sequence with
\* element k = override * time[k] + tau.
C13_ReturnShape_AsStated ==
    (op = "tau" /\ exc = NoExc) =>
        /\ (ret[1] = "float") = (targ.slope = None)
        /\ targ.slope # None => DriftArray

\* C13 (amended): whenever tau returns, it returns a scalar exactly when the
\* override is None or 0, and for every non-zero override the sequence with
\* element k = override * time[k] + tau.
C13_ReturnShape ==
    (op = "tau" /\ exc = NoExc) =>
        /\ (ret[1] = "float") = (targ.slope \in {None, Zero})
        /\ targ.slope \notin {None, Zero} => DriftArray

C13_Witness ==
    /\ op = "tau" /\ exc = NoExc /\ targ.slope = <<2, 1>>
    /\ Len(self._time) = 3 /\ ret[1] = "ndarray"
    /\ ret[2][2] = <<"+", <<20, 1>>, TauTerm(<<20, 1>>, <<2, 1>>)>>

\* the ratio v_rc_0 / v_rc[-1] of the last direct tau call is defined and <= 0
RatioNotPositive ==
    /\ targ.v_rc.series /\ Len(targ.v_rc.val) > 0 /\ targ.v_rc_0 # None
    /\ LET ratio == Div(targ.v_rc_0, targ.v_rc.val[Len(targ.v_rc.val)])
       IN  ratio # NaN /\ ratio[1] <= 0

\* C14: tau called with a ratio v_rc_0 / v_rc[-1] <= 0 raises and returns no
\* time constant; an error raised by tau inside guessing_parameters leaves
\* guessing_parameters as it is, and no capacitance is assigned.
C14_DomainError ==
    /\ (op = "tau" /\ RatioNotPositive) => (exc # NoExc /\ ret = None)
    /\ op = "guessing_parameters" =>
          /\ exc = tau(self, self.v_ct_0, Scalar(self.v_ct), None, None,
                       self._slope.ct).exc
          /\ exc # NoExc /\ ret = None
          /\ self.c_ct = None /\ self.c_d = None

C14_Witness ==
    /\ op = "tau" /\ RatioNotPositive /\ self.kind = "ndarray"
    /\ targ.v_rc_0 = <<1, 2>> /\ targ.v_rc = Series(<<<<1, 4>>, <<-1, 4>>>>)
    /\ exc = "ValueError" /\ ret = None

\* the fields assigned by __init__
ConstructionFields(s) ==
    <<s._time, s._voltage, s._v_cut, s._i_cut, s._contribute, s._slope,
      s.ocv, s.v_0, s._v_rlx, s.v_ir, s.r_ir>>

\* C15: on a constructed object no call of guessing_parameters or
\* ocv_relax_func, returning or raising, changes a field assigned by
\* __init__, and ocv_relax_func changes none of the eight branch fields.
C15_Frame ==
    [][pc = "live" =>
          /\ ConstructionFields(self') = ConstructionFields(self)
          /\ op' = "ocv_relax_func" =>
                BranchFields(self') = BranchFields(self)]_vars

C15_Witness ==
    /\ pc = "live" /\ op = "ocv_relax_func" /\ calls = 2
    /\ self._v_rlx = <<2, 5>> /\ self.v_ct_0 = <<1, 5>>
    /\ self.v_d_0 = <<4, 5>> /\ self.c_d = None
    /\ exc = "TypeError"

\* guessing_parameters on s gets as far as the first tau call
ReachesTau(s) ==
    LET r_ct == R_branch(V_ct(s), s._i_cut)
        r_d == R_branch(V_d(s), s._i_cut)
    IN  /\ ~DivRaises(s.kind, s._i_cut)
        /\ ~DivRaises(s.kind, Add(r_ct, r_d))

SixDefined(s) ==
    /\ s.v_ct # None /\ s.v_d # None /\ s.r_ct # None /\ s.r_d # None
    /\ s.v_ct_0 # None /\ s.v_d_0 # None

\* C16: a failing guessing_parameters does not roll back.  When it fails in
\* the tau step the six fields assigned before it hold their new values and
\* c_ct, c_d keep their previous values; in every state reached, c_ct or
\* c_d defined implies the other six branch fields are defined.
C16_NoRollback ==
    [][/\ (self'.c_ct # None \/ self'.c_d # None) => SixDefined(self')
       /\ (op' = "guessing_parameters" /\ exc' # NoExc) =>
             /\ self'.v_ct = V_ct(self) /\ self'.v_d = V_d(self)
             /\ ReachesTau(self) =>
                   /\ SixDefined(self')
                   /\ self'.r_ct = R_branch(V_ct(self), self._i_cut)
                   /\ self'.v_ct_0 =
                        V_branch_0(self.v_0, self'.r_ct, self'.r_ct, self'.r_d)
                   /\ self'.c_ct = self.c_ct /\ self'.c_d = self.c_d]_vars

C16_Witness ==
    /\ op = "guessing_parameters" /\ calls = 1 /\ exc = "IndexError"
    /\ self.kind = "ndarray" /\ Len(self._time) = 3 /\ self.v_0 = One
    /\ self.v_ct = <<2, 25>> /\ self.r_ct = <<4, 25>>
    /\ self.v_ct_0 = <<1, 5>> /\ self.v_d_0 = <<4, 5>>
    /\ self.c_ct = None /\ self.c_d = None

NoDup(db) == \A i, j \in 1..Len(db) : db[i] = db[j] => i = j

\* C17: an import with allow_duplicates = False into a new database without
\* duplicate names keeps the cells it holds, adds only names it does not
\* hold, leaves at most one cell per name, and a second import of the same
\* old database adds no cell.
C17_NoDuplicateImport ==
    [][(/\ op' = "import_cells_from_excel_sqlite"
        /\ ~targ'.allow_duplicates
        /\ NoDup(newdb)) =>
          /\ NoDup(newdb')
          /\ Len(newdb') >= Len(newdb)
          /\ SubSeq(newdb', 1, Len(newdb)) = newdb
          /\ \A i \in Len(newdb) + 1..Len(newdb') :
                /\ newdb'[i] \notin Range(newdb)
                /\ newdb'[i] \in Range(reader.other_engine.db.rows)
          /\ import_cells_from_excel_sqlite(reader', newdb', FALSE).db
                = newdb']_vars

C17_Witness ==
    /\ op = "import_cells_from_excel_sqlite" /\ ~targ.allow_duplicates
    /\ exc = NoExc /\ sessions = 2
    /\ reader.other_engine.db.rows = <<"b", "b">>
    /\ newdb = <<"a", "b">>

\* C18: while old_cell_table is None (load_excel_sqlite has never
\* succeeded), import_cells_from_excel_sqlite and
\* view_old_excel_sqlite_table_columns raise ValueError, open no session,
\* print nothing, and leave the new database and the reader unchanged.
C18_NoOldTable ==
    [][(/\ ~reader.old_cell_table.loaded
        /\ op' \in {"import_cells_from_excel_sqlite",
                    "view_old_excel_sqlite_table_columns"}) =>
          /\ exc' = "ValueError"
          /\ sessions' = 0
          /\ printed' = <<>>
          /\ newdb' = newdb
          /\ reader' = reader]_vars

C18_Witness ==
    /\ op = "view_old_excel_sqlite_table_columns" /\ exc = "ValueError"
    /\ reader.engine # "None"
    /\ reader.other_engine = [bound |-> TRUE, db |-> FileWithoutCells]
    /\ ~reader.old_cell_table.loaded
    /\ printed = <<>> /\ sessions = 0

\* the columns of raw whose name starts with "Aux_"
AuxColumns == {c \in Range(raw) : Len(c) >= 4 /\ SubSeq(c, 1, 4) = Aux_}

\* v is c with every "/" replaced by "_", cut off before the first "(",
\* and lower-cased
Renamed(c, v) ==
    /\ Len(v) <= Len(c)
    /\ \A i \in 1..Len(v) : c[i] # "("
    /\ Len(v) < Len(c) => c[Len(v) + 1] = "("
    /\ \A i \in 1..Len(v) :
          \/ c[i] = "/" /\ v[i] = "_"
          \/ \E k \in 1..26 : c[i] = UpperCase[k] /\ v[i] = LowerCase[k]
          \/ c[i] # "/" /\ c[i] \notin Range(UpperCase) /\ v[i] = c[i]

\* C19: get_headers_aux(raw) returns a mapping whose keys are exactly the
\* columns of raw starting with "Aux_", each mapped to its name with "/"
\* replaced by "_", cut before the first "(" and lower-cased.
C19_HeadersAux ==
    op = "get_headers_aux" =>
        /\ DOMAIN ret = AuxColumns
        /\ \A c \in AuxColumns : Renamed(c, ret[c])

C19_Witness ==
    /\ op = "get_headers_aux" /\ Len(raw) = 2
    /\ raw[1] = <<"T", "/", "C", "(", "C", ")">>
    /\ raw[2] = <<"A", "u", "x", "_", "a", "/", "B", "(", "c", "(", "D">>
    /\ DOMAIN ret = {raw[2]}
    /\ ret[raw[2]] = <<"a", "u", "x", "_", "a", "_", "b">>

====
